---------------------------- MODULE Spec2Model ----------------------------
(***************************************************************************)
(* dedupe: an offline file deduplicator (src/dedupe.c).                    *)
(*                                                                         *)
(* The model holds a small file system (directory entries, inodes, user    *)
(* extended attributes, directory mtimes) and the state of one process     *)
(* running main(): the scanner, the size grouper, the hasher, the digest   *)
(* grouper and the relinker, the relinker one system call per step.        *)
(* System calls that the kernel may refuse (open, fstat, fstatat, mmap,    *)
(* fsetxattr, link, rename) fail nondeterministically, at most MaxFaults   *)
(* times in a behaviour.                                                   *)
(***************************************************************************)
EXTENDS Integers, Sequences, FiniteSets, TLC

(***************************************************************************)
(* Bounds of the model.                                                    *)
(***************************************************************************)
NumInodes == 4          \* regular-file inodes of the file system
NumTmp    == 2          \* values the random temporary-name nonce R takes
MaxFaults == 1          \* refused system calls in one behaviour
MaxRuns   == 2          \* invocations of the program on the same tree

SHA256_DIGEST_LENGTH == 32

Inos == 1 .. NumInodes
NoIno == 0

(***************************************************************************)
(* The tree: the root directory "r" holds the directory "s"; each holds    *)
(* regular files named "a" and "b" and temporary names ".tmp<R>~".         *)
(***************************************************************************)
Dirs == {"r", "r/s"}
SubdirNames(d) == IF d = "r" THEN <<"s">> ELSE <<>>
TmpTable == <<".tmp00000000~", ".tmp00000001~", ".tmp00000002~", ".tmp00000003~">>
TmpName(R) == TmpTable[R + 1]
TmpNames == {TmpName(R) : R \in 0 .. NumTmp - 1}
FileNames == {"a", "b"}
NameOrder == <<"a", "b">> \o [k \in 1 .. NumTmp |-> TmpName(k - 1)]
Names == FileNames \cup TmpNames

\* talloc_asprintf(dpath, "%s/%s", dpath, e->d_name)
JoinPath(dpath, name) == dpath \o "/" \o name
FilePaths == {JoinPath(d, n) : d \in Dirs, n \in FileNames}
AllPaths == {JoinPath(d, n) : d \in Dirs, n \in Names}
\* dir = talloc_strdup(root, dpath->path); *strrchr(dir, '/') = 0
DirName(path) == CHOOSE d \in Dirs : \E n \in Names : path = JoinPath(d, n)

(***************************************************************************)
(* File contents, sizes, digests, modification times.                      *)
(***************************************************************************)
Contents == {"", "x", "y"}
Size(c) == Len(c)
\* SHA-256, assumed collision free: an injective map from contents to digests.
\* Digests are compared as memcmp compares them, here as numbers.
SHA256(c) == CASE c = "" -> 3 [] c = "x" -> 2 [] c = "y" -> 1
Digests == {SHA256(c) : c \in Contents}
Mtimes == {<<1, 0>>, <<1, 1>>, <<2, 0>>}

\* values of the two extended attributes
SizeofTimespec == 16
NoAttr == [len |-> -1, val |-> 0]

VARIABLES
  \* ---- the file system
  dir,            \* directory entries: path -> inode number, NoIno when absent
  content,        \* inode -> bytes of the file
  mtime,          \* inode -> <<tv_sec, tv_nsec>>
  xhash,          \* inode -> attribute user.dedupe.hash
  xmtime,         \* inode -> attribute user.dedupe.hash_mtime (NoAttr or [len, val])
  ddev,           \* directory -> st_dev
  fdev,           \* path of a regular file -> st_dev of the file it resolves to
  dmtime,         \* directory -> number of times its entries were changed
  \* ---- struct dedupe_state
  dryrun, interactive, xattrs,
  device, dirs, exclude,
  inode_lookup, tohash_list, hash_lookup, tolink_list,
  relinked_count, relinked_size,
  \* ---- position of the process
  pc,             \* stage of main()
  idx,            \* loop index i of the loop main() is in
  ordered,        \* relink: the bucket's inodes, sorted
  di,             \* relink: index into ordered of the destination inode
  dpath,          \* relink: index into the destination inode's paths
  spath,          \* relink: index into the source inode's paths
  tmp,            \* relink: the temporary path, "" when none
  \* ---- the environment
  faults,         \* system calls refused so far
  eof,            \* standard input has reached end of input
  \* ---- history, for stating properties
  run,            \* number of the current invocation
  dir0,           \* the directory entries when the current invocation started
  dmtime0,        \* the directory mtimes when the current invocation started
  xhash0,         \* the digest attributes when the current invocation started
  xmtime0,        \* the mtime attributes when the current invocation started
  trace,          \* rename calls of the current invocation, in order
  mark,           \* counters and link counts when relink() was entered
  refused,        \* some group of the current invocation was refused at the prompt
  prev,           \* summary of the previous invocation
  hashlog,        \* calls of hash_inode of the current invocation, in order
  calls,          \* keys of the buckets relink was called with, in order
  declined        \* keys of the buckets refused at the prompt

fsvars   == <<dir, content, mtime, xhash, xmtime, ddev, fdev, dmtime>>
optvars  == <<dryrun, interactive, xattrs, device, dirs, exclude>>
mapvars  == <<inode_lookup, tohash_list, hash_lookup, tolink_list>>
cntvars  == <<relinked_count, relinked_size>>
relvars  == <<ordered, di, dpath, spath, tmp>>
histvars == <<run, dir0, dmtime0, xhash0, xmtime0, trace, mark, refused, prev,
              hashlog, calls, declined>>
vars == <<fsvars, optvars, mapvars, cntvars, pc, idx, relvars, faults, eof, histvars>>


(***************************************************************************)
(* Helpers.                                                                *)
(***************************************************************************)
RECURSIVE AscSeq(_)
AscSeq(S) ==
  IF S = {} THEN <<>>
  ELSE LET m == CHOOSE x \in S : \A y \in S : x <= y
       IN <<m>> \o AscSeq(S \ {m})

Range(s) == {s[k] : k \in 1 .. Len(s)}

RECURSIVE SumSeq(_)
SumSeq(s) == IF s = <<>> THEN 0 ELSE Head(s) + SumSeq(Tail(s))

\* st_nlink of an inode: the directory entries that name it
LinkCount(d, i) == Cardinality({p \in AllPaths : d[p] = i})

\* hash_map_walk visits every bucket once; the order of the bucket array is
\* taken to be the ascending order of the keys.
hash_map_walk(keys) == AscSeq(keys)

(***************************************************************************)
(* Scanner.                                                                *)
(***************************************************************************)
\* fnmatch(pattern, name, FNM_PATHNAME) for the patterns of the model: a
\* literal name, or "*", which matches every name (names hold no '/').
fnmatch(pattern, name) == pattern = name \/ pattern = "*"

\* a variant of is_excluded that knows "." and ".." only
is_excluded_dots(name) == name = "." \/ name = ".."

is_excluded(name) ==
  \/ name = "." \/ name = ".."
  \/ \E pattern \in exclude : fnmatch(pattern, name)

\* the entries readdir returns for directory d, in the directory's order
readdir(d) ==
  <<[d_name |-> ".", d_type |-> "DT_DIR", d_ino |-> NoIno],
    [d_name |-> "..", d_type |-> "DT_DIR", d_ino |-> NoIno]>>
  \o SelectSeq([k \in 1 .. Len(NameOrder) |->
                  [d_name |-> NameOrder[k], d_type |-> "DT_REG",
                   d_ino |-> dir[JoinPath(d, NameOrder[k])]]],
               LAMBDA e : e.d_ino # NoIno)
  \o [k \in 1 .. Len(SubdirNames(d)) |->
        [d_name |-> SubdirNames(d)[k], d_type |-> "DT_DIR", d_ino |-> NoIno]]

\* what fstatat fills into ientry->buffer
StatBuffer(i) == [st_ino |-> i, st_size |-> Size(content[i]), st_mtim |-> mtime[i]]
ZeroBuffer == [st_ino |-> 0, st_size |-> 0, st_mtim |-> <<0, 0>>]

\* a bucket of inode_lookup: absent, present with value NULL, or present with
\* an inode_entry
NoBucket   == [st |-> "absent", buffer |-> ZeroBuffer, hash |-> 0, paths |-> <<>>]
NullBucket == [st |-> "null", buffer |-> ZeroBuffer, hash |-> 0, paths |-> <<>>]

\* the system calls of one scan that may be refused
ScanFaultPoints ==
  {<<"openat", d>> : d \in Dirs} \cup {<<"fstat", d>> : d \in Dirs}
    \cup {<<"fstatat", p>> : p \in AllPaths}

\* a variant of scan_regular that keeps only the last path of an inode
scan_regular_last(S, d, e, F) ==
  LET fullpath == JoinPath(d, e.d_name)
      bucket == S.il[e.d_ino]
  IN IF bucket.st = "entry"
     THEN [S EXCEPT !.il[e.d_ino].paths = <<fullpath>>]
     ELSE IF <<"fstatat", fullpath>> \in F
     THEN [S EXCEPT !.il[e.d_ino] = NullBucket,
                    !.fired = @ \cup {<<"fstatat", fullpath>>}]
     ELSE [S EXCEPT !.il[e.d_ino] =
             [st |-> "entry", buffer |-> StatBuffer(dir[fullpath]),
              hash |-> 0, paths |-> <<fullpath>>]]

\* the DT_REG branch of scan_directory for entry e of directory d
scan_regular(S, d, e, F) ==
  LET fullpath == JoinPath(d, e.d_name)
      bucket == S.il[e.d_ino]
  IN IF bucket.st = "entry"
     THEN [S EXCEPT !.il[e.d_ino].paths = <<fullpath>> \o @]
     ELSE IF <<"fstatat", fullpath>> \in F
     THEN [S EXCEPT !.il[e.d_ino] = NullBucket,
                    !.fired = @ \cup {<<"fstatat", fullpath>>}]
     ELSE [S EXCEPT !.il[e.d_ino] =
             [st |-> "entry", buffer |-> StatBuffer(dir[fullpath]),
              hash |-> 0, paths |-> <<fullpath>>]]

\* scan_directory(state, pfd, dpath, dname) with the system calls in F refused;
\* S.il is inode_lookup, S.fired the refused calls that were made
RECURSIVE scan_directory(_, _, _), scan_entries(_, _, _, _)
scan_directory(S, d, F) ==
  IF <<"openat", d>> \in F
  THEN [S EXCEPT !.fired = @ \cup {<<"openat", d>>}]
  ELSE IF <<"fstat", d>> \in F
  THEN [S EXCEPT !.fired = @ \cup {<<"fstat", d>>}]
  ELSE IF ddev[d] # device
  THEN S
  ELSE scan_entries(S, d, readdir(d), F)

scan_entries(S, d, es, F) ==
  IF es = <<>> THEN S
  ELSE LET e == Head(es)
           S1 == IF is_excluded(e.d_name) THEN S
                 ELSE IF e.d_type = "DT_DIR"
                 THEN scan_directory(S, JoinPath(d, e.d_name), F)
                 ELSE IF e.d_type = "DT_REG"
                 THEN scan_regular(S, d, e, F)
                 ELSE S
       IN scan_entries(S1, d, Tail(es), F)

\* main, lines 176-177: one iteration of the loop over the roots
ScanRoot ==
  /\ pc = "scan"
  /\ idx <= Len(dirs)
  /\ \E F \in SUBSET ScanFaultPoints :
       /\ Cardinality(F) <= MaxFaults - faults
       /\ LET S == scan_directory([il |-> inode_lookup, fired |-> {}], dirs[idx], F)
          IN /\ S.fired = F
             /\ inode_lookup' = S.il
             /\ faults' = faults + Cardinality(F)
  /\ idx' = idx + 1
  /\ UNCHANGED <<fsvars, optvars, tohash_list, hash_lookup, tolink_list, cntvars,
                 pc, relvars, eof, histvars>>

(***************************************************************************)
(* Size grouper.                                                           *)
(***************************************************************************)
\* the keys of inode_lookup
InodeKeys(il) == {i \in Inos : il[i].st # "absent"}

\* size_lookup after hash_map_walk(inode_lookup, bucketize_by_size): size ->
\* the chain of inodes of that size (value, next_by_size), dummy its length
bucketize_by_size(il) ==
  LET walk == hash_map_walk(InodeKeys(il))
      sizes == {il[i].buffer.st_size : i \in InodeKeys(il)}
      RECURSIVE chain(_, _)
      chain(sz, k) ==
        IF k = 0 THEN <<>>
        ELSE IF il[walk[k]].buffer.st_size = sz
        THEN <<walk[k]>> \o chain(sz, k - 1)
        ELSE chain(sz, k - 1)
  IN [sz \in sizes |-> chain(sz, Len(walk))]

\* gather_tohash_sortcb, as "sorts before"
gather_tohash_sortcb(il, i0, i1) == il[i0].buffer.st_size < il[i1].buffer.st_size

\* a variant of gather_tohash that takes the size buckets of one inode too
gather_tohash_all(il, size_lookup) ==
  LET walk == hash_map_walk(DOMAIN size_lookup)
      RECURSIVE gather(_)
      gather(k) ==
        IF k > Len(walk) THEN <<>>
        ELSE size_lookup[walk[k]] \o gather(k + 1)
  IN SortSeq(gather(1), LAMBDA i0, i1 : gather_tohash_sortcb(il, i0, i1))

\* gather_tohash: the inodes of every size bucket with dummy >= 2, sorted by size
gather_tohash(il, size_lookup) ==
  LET walk == hash_map_walk(DOMAIN size_lookup)
      RECURSIVE gather(_)
      gather(k) ==
        IF k > Len(walk) THEN <<>>
        ELSE (IF Len(size_lookup[walk[k]]) < 2 THEN <<>> ELSE size_lookup[walk[k]])
             \o gather(k + 1)
  IN SortSeq(gather(1), LAMBDA i0, i1 : gather_tohash_sortcb(il, i0, i1))

\* main, lines 179-185.  bucketize_by_size reads ientry->buffer.st_size and
\* writes ientry->next_by_size through inode_bucket->value; where that value
\* is NULL both accesses are to page zero and the process is killed.
BucketizeBySize ==
  /\ pc = "scan"
  /\ idx > Len(dirs)
  /\ IF \E i \in Inos : inode_lookup[i].st = "null"
     THEN /\ pc' = "crashed"
          /\ UNCHANGED <<tohash_list, idx>>
     ELSE /\ pc' = "hash"
          /\ idx' = 1
          /\ tohash_list' = gather_tohash(inode_lookup, bucketize_by_size(inode_lookup))
  /\ UNCHANGED <<fsvars, optvars, inode_lookup, hash_lookup, tolink_list, cntvars,
                 relvars, faults, eof, histvars>>


(***************************************************************************)
(* Hasher.                                                                 *)
(***************************************************************************)
\* a variant of OpenedPath in which the first path is always opened
OpenedPathFirst(paths, opens) == IF paths = <<>> THEN 0 ELSE 1

\* the path hash_inode opens: the paths are tried in order, the first `opens`
\* opens of existing paths are refused; 0 when no open succeeds
OpenedPath(paths, opens) ==
  LET exist == SelectSeq([k \in 1 .. Len(paths) |-> k],
                         LAMBDA k : dir[paths[k]] # NoIno)
  IN IF opens < Len(exist) THEN exist[opens + 1] ELSE 0

\* a variant of Cached that does not check the length of the stored digest
CachedAnyLength(inode, fdino) ==
  LET result0 == xhash[fdino].len
      result1 == xmtime[fdino].len
  IN /\ xattrs
     /\ result0 # -1
     /\ \/ result1 = -1
        \/ /\ result1 = SizeofTimespec
           /\ inode.buffer.st_mtim = xmtime[fdino].val

\* a variant of Cached that does not compare the stored mtime
CachedAnyMtime(inode, fdino) ==
  xattrs /\ xhash[fdino].len = SHA256_DIGEST_LENGTH

\* a variant of Cached that never adopts the stored digest
CachedNever(inode, fdino) == FALSE

\* lines 508-511: the stored digest is adopted
Cached(inode, fdino) ==
  LET result0 == xhash[fdino].len
      result1 == xmtime[fdino].len
  IN /\ xattrs
     /\ result0 = SHA256_DIGEST_LENGTH
     /\ \/ result1 = -1
        \/ /\ result1 = SizeofTimespec
           /\ inode.buffer.st_mtim = xmtime[fdino].val

\* a variant of ComputedHash that never feeds the bytes to the digest
EmptyHash(inode, fdino) == SHA256("")

\* lines 516-547: the digest of the bytes mapped through the descriptor
ComputedHash(inode, fdino) == SHA256(content[fdino])

\* lines 566-569: the inode goes to the front of the chain of its digest
hash_map_insert_inode(hl, h, i) == [hl EXCEPT ![h] = <<i>> \o @]

\* hash_inode(state, i, hashed, tohash_list[i]): `opens` opens are refused,
\* mmap is refused when `mm`, the two fsetxattr calls when `w0`, `w1`
HashInodeStep(ino, opens, mm, w0, w1) ==
  LET inode == inode_lookup[ino]
      k == OpenedPath(inode.paths, opens)
      fdino == dir[inode.paths[k]]
      cached == Cached(inode, fdino)
      hash == IF cached THEN xhash[fdino].val ELSE ComputedHash(inode, fdino)
  IN IF k = 0
     THEN /\ ~mm /\ ~w0 /\ ~w1
          /\ UNCHANGED <<inode_lookup, hash_lookup, xhash, xmtime>>
     ELSE IF cached
     THEN /\ ~mm /\ ~w0 /\ ~w1
          /\ inode_lookup' = [inode_lookup EXCEPT ![ino].hash = hash]
          /\ hash_lookup' = hash_map_insert_inode(hash_lookup, hash, ino)
          /\ UNCHANGED <<xhash, xmtime>>
     ELSE IF mm
     THEN /\ inode.buffer.st_size # 0
          /\ ~w0 /\ ~w1
          /\ UNCHANGED <<inode_lookup, hash_lookup, xhash, xmtime>>
     ELSE /\ (w0 \/ w1) => xattrs
          /\ inode_lookup' = [inode_lookup EXCEPT ![ino].hash = hash]
          /\ hash_lookup' = hash_map_insert_inode(hash_lookup, hash, ino)
          /\ xhash' = IF xattrs /\ ~w0
                      THEN [xhash EXCEPT ![fdino] =
                              [len |-> SHA256_DIGEST_LENGTH, val |-> hash]]
                      ELSE xhash
          /\ xmtime' = IF xattrs /\ ~w1
                       THEN [xmtime EXCEPT ![fdino] =
                               [len |-> SizeofTimespec, val |-> inode.buffer.st_mtim]]
                       ELSE xmtime

B2N(b) == IF b THEN 1 ELSE 0

\* what one call of hash_inode did: whether a path was opened (and the inode
\* the descriptor names), whether the stored digest was adopted, whether the
\* content was fed to SHA-256, and the calls of open and mmap that were refused
HashRecord(ino, opens, mm) ==
  LET inode == inode_lookup[ino]
      k == OpenedPath(inode.paths, opens)
      fdino == IF k = 0 THEN NoIno ELSE dir[inode.paths[k]]
      cached == k # 0 /\ Cached(inode, fdino)
  IN [ino |-> ino, opened |-> k # 0, fd |-> fdino, cached |-> cached,
      computed |-> k # 0 /\ ~cached /\ ~mm, refused |-> opens, mmap |-> mm]

\* main, lines 186-191: one iteration of the loop over tohash_list
HashInode ==
  /\ pc = "hash"
  /\ idx <= Len(tohash_list)
  /\ \E opens \in 0 .. Len(inode_lookup[tohash_list[idx]].paths),
        mm \in BOOLEAN, w0 \in BOOLEAN, w1 \in BOOLEAN :
       /\ opens + B2N(mm) + B2N(w0) + B2N(w1) <= MaxFaults - faults
       /\ HashInodeStep(tohash_list[idx], opens, mm, w0, w1)
       /\ hashlog' = Append(hashlog, HashRecord(tohash_list[idx], opens, mm))
       /\ faults' = faults + opens + B2N(mm) + B2N(w0) + B2N(w1)
  /\ idx' = idx + 1
  /\ UNCHANGED <<dir, content, mtime, ddev, fdev, dmtime, optvars, tohash_list,
                 tolink_list, cntvars, pc, relvars, eof,
                 run, dir0, dmtime0, xhash0, xmtime0, trace, mark, refused, prev, calls,
                 declined>>

(***************************************************************************)
(* Digest grouper.                                                         *)
(***************************************************************************)
\* a variant of gather_tolink_sortcb with the comparison reversed
gather_tolink_sortcb_desc(key0, key1) == key0 > key1

\* gather_tolink_sortcb: memcmp of the two keys, as "sorts before"
gather_tolink_sortcb(key0, key1) == key0 < key1

\* gather_tolink: the buckets of hash_lookup with dummy >= 2, sorted by key
gather_tolink(hl) ==
  LET walk == hash_map_walk({h \in DOMAIN hl : hl[h] # <<>>})
  IN SortSeq(SelectSeq(walk, LAMBDA h : ~(Len(hl[h]) < 2)), gather_tolink_sortcb)

\* main, line 199
GatherTolink ==
  /\ pc = "hash"
  /\ idx > Len(tohash_list)
  /\ tolink_list' = gather_tolink(hash_lookup)
  /\ pc' = "relink"
  /\ idx' = 1
  /\ UNCHANGED <<fsvars, optvars, inode_lookup, tohash_list, hash_lookup, cntvars,
                 relvars, faults, eof, histvars>>


(***************************************************************************)
(* Relinker.                                                               *)
(***************************************************************************)
\* a variant of relink_sortcb that compares the inode numbers only
relink_sortcb_ino(inode0, inode1) ==
  IF inode0.buffer.st_ino < inode1.buffer.st_ino THEN -1
  ELSE IF inode0.buffer.st_ino > inode1.buffer.st_ino THEN 1
  ELSE 0

\* lines 730-754
relink_sortcb(inode0, inode1) ==
  LET mt0 == inode0.buffer.st_mtim
      mt1 == inode1.buffer.st_mtim
  IN IF mt0[1] < mt1[1] THEN -1
     ELSE IF mt0[1] > mt1[1] THEN 1
     ELSE IF mt0[2] < mt1[2] THEN -1
     ELSE IF mt0[2] > mt1[2] THEN 1
     ELSE IF inode0.buffer.st_ino < inode1.buffer.st_ino THEN -1
     ELSE IF inode0.buffer.st_ino > inode1.buffer.st_ino THEN 1
     ELSE 0

\* lines 611-615: the chain of the bucket, sorted with relink_sortcb
relink_ordered(il, chain) ==
  SortSeq(chain, LAMBDA i0, i1 : relink_sortcb(il[i0], il[i1]) < 0)

\* a variant of SourcePaths that links from the destination inode itself
OwnPaths == inode_lookup[ordered[di]].paths
\* a variant of DestPaths that stops after the first path of an inode
OnePath == <<Head(inode_lookup[ordered[di]].paths)>>

\* a variant of SourcePaths that links from the last inode of the bucket
YoungestPaths == inode_lookup[ordered[Len(ordered)]].paths

\* line 612 and line 689: the paths of the source, ordered[0]
SourcePaths == inode_lookup[ordered[1]].paths
\* lines 670-672: the paths of the destination inode, and the current one
DestPaths == inode_lookup[ordered[di]].paths
DestPath == DestPaths[dpath]

\* the loops of lines 670-672 reach their first destination path
FirstPath ==
  /\ pc' = "retry"
  /\ di' = 2
  /\ dpath' = 1
  /\ spath' = 0
  /\ tmp' = ""

\* a variant of NextPath that gives up the bucket
NextPathStop ==
  /\ spath' = 0
  /\ tmp' = ""
  /\ pc' = "return" /\ di' = 0 /\ dpath' = 0

\* lines 722-725: the next destination path, or the end of relink
NextPath ==
  /\ spath' = 0
  /\ tmp' = ""
  /\ IF dpath < Len(DestPaths)
     THEN /\ pc' = "retry" /\ di' = di /\ dpath' = dpath + 1
     ELSE IF di < Len(ordered)
     THEN /\ pc' = "retry" /\ di' = di + 1 /\ dpath' = 1
     ELSE /\ pc' = "return" /\ di' = 0 /\ dpath' = 0

\* a variant of Proceed that does not look at --dry-run
ProceedAlways(m) ==
  /\ FirstPath
  /\ mark' = m

\* lines 665-668: past the prompt; m is the mark of this call
Proceed(m) ==
  IF dryrun
  THEN /\ pc' = "return"
       /\ mark' = [m EXCEPT !.skipped = TRUE]
       /\ UNCHANGED <<di, dpath, spath, tmp>>
  ELSE /\ FirstPath
       /\ mark' = m

\* main, line 202, and relink, lines 611-646: the call, the sort, the report
RelinkEnter ==
  /\ pc = "relink"
  /\ idx <= Len(tolink_list)
  /\ LET sorted == relink_ordered(inode_lookup, hash_lookup[tolink_list[idx]])
         entered == [count |-> relinked_count, faults |-> faults,
                     nlink |-> LinkCount(dir, sorted[1]), skipped |-> FALSE]
     IN /\ ordered' = sorted
        /\ calls' = Append(calls, tolink_list[idx])
        /\ IF interactive
           THEN /\ pc' = "prompt"
                /\ mark' = entered
                /\ UNCHANGED <<di, dpath, spath, tmp>>
           ELSE Proceed(entered)
  /\ UNCHANGED <<fsvars, optvars, mapvars, cntvars, idx, faults, eof,
                 run, dir0, dmtime0, xhash0, xmtime0, trace, refused, prev, hashlog,
                 declined>>

\* the lines a user may type at the prompt
Lines == {"y\n", "yes\n", "n\n", "no\n", "maybe\n"}

\* lines 650-662: one turn of the prompt loop.  fgets stores a line, or at
\* end of input stores nothing and the comparisons read the buffer as it was
\* left, which is indeterminate.
RelinkPrompt ==
  /\ pc = "prompt"
  /\ \E atEnd \in BOOLEAN, buffer \in Lines :
       /\ eof => atEnd
       /\ eof' = atEnd
       /\ IF buffer = "y\n" \/ buffer = "yes\n"
          THEN /\ Proceed(mark)
               /\ UNCHANGED <<refused, declined>>
          ELSE IF buffer = "n\n" \/ buffer = "no\n"
          THEN /\ pc' = "return"
               /\ mark' = [mark EXCEPT !.skipped = TRUE]
               /\ refused' = TRUE
               /\ declined' = declined \cup {tolink_list[idx]}
               /\ UNCHANGED <<di, dpath, spath, tmp>>
          ELSE UNCHANGED <<pc, mark, refused, declined, di, dpath, spath, tmp>>
  /\ UNCHANGED <<fsvars, optvars, mapvars, cntvars, idx, ordered, faults,
                 run, dir0, dmtime0, xhash0, xmtime0, trace, prev, hashlog, calls>>

\* lines 677-686: the nonce R and the temporary path
RelinkRetry ==
  /\ pc = "retry"
  /\ \E R \in 0 .. NumTmp - 1 :
       tmp' = JoinPath(DirName(DestPath), TmpName(R))
  /\ spath' = 1
  /\ pc' = "link"
  /\ UNCHANGED <<fsvars, optvars, mapvars, cntvars, idx, ordered, di, dpath,
                 faults, eof, histvars>>

\* the path is the mount point of a regular file of another file system (a
\* file mounted over a placeholder that has no other name in the tree)
IsMountPoint(path) == fdev[path] # ddev[DirName(path)]

\* the directory entries after link(oldpath, newpath) succeeds
SysLink(d, oldpath, newpath) == [d EXCEPT ![newpath] = d[oldpath]]

\* a variant of SysRename that reports success and changes nothing
SysRenameNothing(d, oldpath, newpath) == d

\* the directory entries after rename(oldpath, newpath) succeeds: nothing
\* changes when both name the same inode
SysRename(d, oldpath, newpath) ==
  IF d[oldpath] = d[newpath] THEN d
  ELSE [d EXCEPT ![newpath] = d[oldpath], ![oldpath] = NoIno]

\* the directory entries after unlink(path) succeeds
SysUnlink(d, path) == [d EXCEPT ![path] = NoIno]

\* the directory mtimes after the entries changed from d to e
Touch(d, e) ==
  [x \in Dirs |-> IF \E n \in Names : d[JoinPath(x, n)] # e[JoinPath(x, n)]
                  THEN dmtime[x] + 1 ELSE dmtime[x]]

\* lines 689-706: one call of link(spath->path, tmp)
RelinkLink ==
  /\ pc = "link"
  /\ LET oldpath == SourcePaths[spath]
         lastpath == spath = Len(SourcePaths)
         \* EXDEV: oldpath and tmp are on different mounted file systems
         exdev == fdev[oldpath] # ddev[DirName(tmp)]
     IN \E refuse \in BOOLEAN :
          /\ refuse => /\ faults < MaxFaults
                       /\ dir[oldpath] # NoIno /\ dir[tmp] = NoIno /\ ~exdev
          /\ faults' = faults + B2N(refuse)
          /\ IF dir[oldpath] # NoIno /\ dir[tmp] # NoIno
             THEN \* EEXIST: goto retry
                  /\ pc' = "retry"
                  /\ tmp' = ""
                  /\ spath' = 0
                  /\ UNCHANGED <<dir, dmtime, di, dpath>>
             ELSE IF refuse \/ exdev \/ dir[oldpath] = NoIno
             THEN \* perror; the next source path, or linked stays false
                  /\ UNCHANGED <<dir, dmtime>>
                  /\ IF lastpath
                     THEN NextPath
                     ELSE /\ spath' = spath + 1
                          /\ UNCHANGED <<pc, tmp, di, dpath>>
             ELSE /\ dir' = SysLink(dir, oldpath, tmp)
                  /\ dmtime' = Touch(dir, dir')
                  /\ pc' = "rename"
                  /\ UNCHANGED <<tmp, spath, di, dpath>>
  /\ UNCHANGED <<content, mtime, xhash, xmtime, ddev, fdev, optvars, mapvars, cntvars,
                 idx, ordered, eof, histvars>>

\* a variant of CountRelink that adds the size and forgets the count
CountSizeOnly ==
  /\ relinked_count' = relinked_count
  /\ relinked_size' = relinked_size + inode_lookup[ordered[1]].buffer.st_size

\* lines 717-718
CountRelink ==
  /\ relinked_count' = relinked_count + 1
  /\ relinked_size' = relinked_size + inode_lookup[ordered[1]].buffer.st_size

\* lines 710-719: rename(tmp, dpath->path)
RelinkRename ==
  /\ pc = "rename"
  /\ \E refuse \in BOOLEAN :
       \* EBUSY: the destination path is a mount point
       /\ refuse => faults < MaxFaults /\ ~IsMountPoint(DestPath)
       /\ faults' = faults + B2N(refuse)
       /\ trace' = Append(trace, [path |-> DestPath, ino |-> dir[tmp],
                                  size |-> Size(content[dir[tmp]]),
                                  ok |-> ~refuse /\ ~IsMountPoint(DestPath)])
       /\ IF refuse \/ IsMountPoint(DestPath)
          THEN /\ pc' = "unlink"
               /\ UNCHANGED <<dir, dmtime, cntvars, tmp, spath, di, dpath>>
          ELSE /\ dir' = SysRename(dir, tmp, DestPath)
               /\ dmtime' = Touch(dir, dir')
               /\ CountRelink
               /\ NextPath
  /\ UNCHANGED <<content, mtime, xhash, xmtime, ddev, fdev, optvars, mapvars,
                 idx, ordered, eof, run, dir0, dmtime0, xhash0, xmtime0,
                 mark, refused, prev,
                 hashlog, calls, declined>>

\* a variant of RelinkUnlink that removes the destination path, not tmp
RelinkUnlinkDest ==
  /\ pc = "unlink"
  /\ \E refuse \in BOOLEAN :
       /\ refuse => faults < MaxFaults
       /\ faults' = faults + B2N(refuse)
       /\ dir' = IF refuse THEN dir ELSE SysUnlink(dir, DestPath)
       /\ dmtime' = Touch(dir, dir')
  /\ NextPath
  /\ UNCHANGED <<content, mtime, xhash, xmtime, ddev, fdev, optvars, mapvars, cntvars,
                 idx, ordered, eof, histvars>>

\* line 713: unlink(tmp), its result unused
RelinkUnlink ==
  /\ pc = "unlink"
  /\ \E refuse \in BOOLEAN :
       /\ refuse => faults < MaxFaults
       /\ faults' = faults + B2N(refuse)
       /\ dir' = IF refuse THEN dir ELSE SysUnlink(dir, tmp)
       /\ dmtime' = Touch(dir, dir')
  /\ NextPath
  /\ UNCHANGED <<content, mtime, xhash, xmtime, ddev, fdev, optvars, mapvars, cntvars,
                 idx, ordered, eof, histvars>>

\* line 727 and the next iteration of main's loop, lines 201-202
RelinkReturn ==
  /\ pc = "return"
  /\ pc' = "relink"
  /\ idx' = idx + 1
  /\ UNCHANGED <<fsvars, optvars, mapvars, cntvars, relvars, faults, eof, histvars>>

\* main, lines 204-207
Exit ==
  /\ pc = "relink"
  /\ idx > Len(tolink_list)
  /\ pc' = "done"
  /\ UNCHANGED <<fsvars, optvars, mapvars, cntvars, idx, relvars, faults, eof, histvars>>


(***************************************************************************)
(* A further invocation on the tree the previous one left.                 *)
(***************************************************************************)
\* the groups relink reports: digest, and inode number and paths of each member
DuplicateGroups ==
  {[key |-> tolink_list[k],
    members |-> {[ino |-> i, paths |-> Range(inode_lookup[i].paths)] :
                   i \in Range(hash_lookup[tolink_list[k]])}] :
     k \in 1 .. Len(tolink_list)}

NoMark == [count |-> 0, faults |-> 0, nlink |-> 0, skipped |-> FALSE]
NoPrev == [dryrun |-> FALSE, faults |-> 0, refused |-> FALSE, groups |-> {},
           count |-> 0, changed |-> FALSE, computed |-> 0]

\* the state of a process entering main's scan loop, lines 159-176
Started ==
  /\ pc = "scan"
  /\ idx = 1
  /\ inode_lookup = [i \in Inos |-> NoBucket]
  /\ tohash_list = <<>>
  /\ hash_lookup = [h \in Digests |-> <<>>]
  /\ tolink_list = <<>>
  /\ relinked_count = 0
  /\ relinked_size = 0
  /\ ordered = <<>>
  /\ di = 0 /\ dpath = 0 /\ spath = 0 /\ tmp = ""
  /\ eof = FALSE
  /\ trace = <<>>
  /\ mark = NoMark
  /\ refused = FALSE
  /\ hashlog = <<>>
  /\ calls = <<>>
  /\ declined = {}

\* the program ran to its end and is invoked again with the same roots and
\* options, with or without --dry-run
Restart ==
  /\ pc = "done"
  /\ run < MaxRuns
  /\ run' = run + 1
  /\ prev' = [dryrun |-> dryrun, faults |-> faults, refused |-> refused,
              groups |-> DuplicateGroups, count |-> relinked_count,
              changed |-> dir # dir0,
              computed |-> Len(SelectSeq(hashlog, LAMBDA h : h.computed))]
  /\ dryrun' \in BOOLEAN
  /\ dir0' = dir
  /\ dmtime0' = dmtime
  /\ xhash0' = xhash
  /\ xmtime0' = xmtime
  /\ pc' = "scan"
  /\ idx' = 1
  /\ inode_lookup' = [i \in Inos |-> NoBucket]
  /\ tohash_list' = <<>>
  /\ hash_lookup' = [h \in Digests |-> <<>>]
  /\ tolink_list' = <<>>
  /\ relinked_count' = 0
  /\ relinked_size' = 0
  /\ ordered' = <<>>
  /\ di' = 0 /\ dpath' = 0 /\ spath' = 0 /\ tmp' = ""
  /\ eof' = FALSE
  /\ trace' = <<>>
  /\ mark' = NoMark
  /\ refused' = FALSE
  /\ hashlog' = <<>>
  /\ calls' = <<>>
  /\ declined' = {}
  /\ UNCHANGED <<fsvars, interactive, xattrs, device, dirs, exclude, faults>>

(***************************************************************************)
(* Initial states.                                                         *)
(***************************************************************************)
FilePathSeq == <<"r/a", "r/b", "r/s/a", "r/s/b">>

TreeOf(f) == [p \in AllPaths |-> IF p \in DOMAIN f THEN f[p] ELSE NoIno]

\* the inodes are numbered 1, 2, ... in the order FilePathSeq first names them
Numbered(g) ==
  \A k \in 1 .. Len(FilePathSeq) :
    \/ g[FilePathSeq[k]] = NoIno
    \/ \E j \in 1 .. k - 1 : g[FilePathSeq[j]] = g[FilePathSeq[k]]
    \/ g[FilePathSeq[k]] =
         1 + Cardinality({g[FilePathSeq[j]] : j \in 1 .. k - 1} \ {NoIno})

\* the same tree with the inode numbers in the opposite order
Renumbered(g) ==
  LET n == Cardinality({g[p] : p \in DOMAIN g} \ {NoIno})
  IN [p \in DOMAIN g |-> IF g[p] = NoIno THEN NoIno ELSE n + 1 - g[p]]

UsedInodes(d) == {d[p] : p \in DOMAIN d} \ {NoIno}

\* the trees with at least `least` inodes
Trees(least) ==
  LET G == {g \in [FilePaths -> {NoIno} \cup Inos] :
              Numbered(g) /\ Cardinality(UsedInodes(g)) >= least}
  IN {TreeOf(g) : g \in G} \cup {TreeOf(Renumbered(g)) : g \in G}

DefaultContent == "x"
DefaultMtime == <<1, 1>>

\* the extended attributes an inode may carry when the program starts
XProfiles == {"none", "fresh", "legacy", "kept", "old", "short"}
XHashOf(profile, c) ==
  CASE profile = "none" -> NoAttr
    [] profile = "fresh" -> [len |-> SHA256_DIGEST_LENGTH, val |-> SHA256(c)]
    [] profile = "short" -> [len |-> 20, val |-> SHA256(DefaultContent)]
    [] OTHER -> [len |-> SHA256_DIGEST_LENGTH, val |-> SHA256(DefaultContent)]
XMtimeOf(profile, mt) ==
  CASE profile = "none" -> NoAttr
    [] profile = "legacy" -> NoAttr
    [] profile = "old" -> [len |-> SizeofTimespec, val |-> <<0, 0>>]
    [] OTHER -> [len |-> SizeofTimespec, val |-> mt]

InitWith(trees, contentmaps, mtimemaps, rootlists, options, profilemaps) ==
  /\ dir \in trees
  /\ content \in contentmaps
  /\ mtime \in mtimemaps
  /\ \A i \in Inos \ UsedInodes(dir) :
       content[i] = DefaultContent /\ mtime[i] = DefaultMtime
  /\ \E x \in profilemaps :
       /\ \A i \in Inos \ UsedInodes(dir) : x[i] = "none"
       /\ xhash = [i \in Inos |-> XHashOf(x[i], content[i])]
       /\ xmtime = [i \in Inos |-> XMtimeOf(x[i], mtime[i])]
  /\ ddev = [d \in Dirs |-> 1]
  /\ fdev = [p \in AllPaths |-> 1]
  /\ dmtime = [d \in Dirs |-> 0]
  /\ dirs \in rootlists
  /\ device = ddev[dirs[1]]
  /\ exclude = {}
  /\ \E o \in options :
       /\ dryrun = o[1]
       /\ interactive = o[2]
       /\ xattrs = o[3]
  /\ faults = 0
  /\ run = 1
  /\ dir0 = dir
  /\ dmtime0 = dmtime
  /\ xhash0 = xhash
  /\ xmtime0 = xmtime
  /\ prev = NoPrev
  /\ Started

NoProfiles == {[i \in Inos |-> "none"]}
SameContent == [Inos -> {DefaultContent}]
SameMtime == [Inos -> {DefaultMtime}]
Plain == <<FALSE, FALSE, FALSE>>

\* duplicates of every shape and age, scanned once
InitAges ==
  InitWith(Trees(3), SameContent, [Inos -> Mtimes], {<<"r">>}, {Plain},
           NoProfiles)
\* roots that are repeated, nested, or leave part of the tree outside
InitRoots ==
  InitWith(Trees(2), SameContent, SameMtime,
           {<<"r/s">>, <<"r", "r">>, <<"r", "r/s">>}, {Plain}, NoProfiles)
\* the options --dry-run and --interactive, and --dry-run with --use-xattrs
InitOptions ==
  InitWith(Trees(2), SameContent, SameMtime, {<<"r">>},
           {<<TRUE, FALSE, FALSE>>, <<FALSE, TRUE, FALSE>>, <<TRUE, TRUE, FALSE>>,
            <<TRUE, FALSE, TRUE>>},
           NoProfiles)
\* files that differ
InitContents ==
  InitWith(Trees(2), [Inos -> Contents], SameMtime, {<<"r">>}, {Plain}, NoProfiles)
\* --use-xattrs on files that carry attributes already
InitXattrs ==
  InitWith({t \in Trees(3) : \A i \in Inos : LinkCount(t, i) = IF i <= 3 THEN 1 ELSE 0},
           [Inos -> {"x", "y"}], SameMtime, {<<"r">>}, {<<FALSE, FALSE, TRUE>>},
           {x \in [Inos -> XProfiles] : \A i \in Inos : i > 2 => x[i] = "none"})

Init == InitAges \/ InitRoots \/ InitOptions \/ InitContents \/ InitXattrs

Next ==
  \/ ScanRoot
  \/ BucketizeBySize
  \/ HashInode
  \/ GatherTolink
  \/ RelinkEnter
  \/ RelinkPrompt
  \/ RelinkRetry
  \/ RelinkLink
  \/ RelinkRename
  \/ RelinkUnlink
  \/ RelinkReturn
  \/ Exit

Spec == Init /\ [][Next]_vars

\* the mount tables: the directory "r/s" on the device of "r" or on another
DirDevices == {[d \in Dirs |-> 1], [d \in Dirs |-> IF d = "r" THEN 1 ELSE 2]}
\* no regular file is a mount point, or one path with a file of its own is
PlainFiles(dd) == [p \in AllPaths |-> dd[DirName(p)]]
FileDevices(t, dd) ==
  {PlainFiles(dd)} \cup
  {[PlainFiles(dd) EXCEPT ![m] = 3 - @] :
     m \in {p \in FilePaths : t[p] # NoIno /\ LinkCount(t, t[p]) = 1}}

InitScanWith(trees, rootlists, excludes, options, mounts) ==
  /\ dir \in trees
  /\ content = [i \in Inos |-> DefaultContent]
  /\ mtime = [i \in Inos |-> DefaultMtime]
  /\ xhash = [i \in Inos |-> NoAttr]
  /\ xmtime = [i \in Inos |-> NoAttr]
  /\ ddev \in (IF mounts THEN DirDevices ELSE {[d \in Dirs |-> 1]})
  /\ fdev \in (IF mounts THEN FileDevices(dir, ddev) ELSE {PlainFiles(ddev)})
  /\ dmtime = [d \in Dirs |-> 0]
  /\ dirs \in rootlists
  /\ device = ddev[dirs[1]]
  /\ exclude \in excludes
  /\ \E o \in options :
       /\ dryrun = o[1]
       /\ interactive = o[2]
       /\ xattrs = o[3]
  /\ faults = 0
  /\ run = 1
  /\ dir0 = dir
  /\ dmtime0 = dmtime
  /\ xhash0 = xhash
  /\ xmtime0 = xmtime
  /\ prev = NoPrev
  /\ Started

\* directories and regular files that are mount points of another device
InitDevices ==
  InitScanWith(Trees(2), {<<"r">>, <<"r", "r/s">>, <<"r/s", "r">>}, {{}},
               {Plain}, TRUE)
\* --exclude patterns
InitExcludes ==
  InitScanWith(Trees(2), {<<"r">>, <<"r", "r/s">>},
               {{"a"}, {"s"}, {"*"}, {"b", "s"}},
               {Plain, <<FALSE, TRUE, FALSE>>}, FALSE)

\* the scanner under mount points and exclusions
InitScan == InitDevices \/ InitExcludes
SpecScan == InitScan /\ [][Next]_vars

\* --dry-run with --use-xattrs on files that carry attributes already
InitCache ==
  InitWith({t \in Trees(2) : /\ t["r/a"] # NoIno /\ t["r/b"] # NoIno
                              /\ t["r/a"] # t["r/b"]
                              /\ t["r/s/a"] = NoIno /\ t["r/s/b"] = NoIno},
           [Inos -> {"x", "y"}], SameMtime, {<<"r">>},
           {<<TRUE, FALSE, TRUE>>, <<TRUE, TRUE, TRUE>>},
           {x \in [Inos -> XProfiles] : \A i \in Inos : i > 2 => x[i] = "none"})

\* two and more invocations, one after the other
InitTwice == InitRoots \/ InitOptions \/ InitXattrs
NextTwice == Next \/ Restart
SpecTwice == InitTwice /\ [][NextTwice]_vars
\* a dry run with the attribute cache, then further invocations
SpecCache == InitCache /\ [][NextTwice]_vars

\* --interactive, with and without --dry-run, on files that differ, so that a
\* run has more than one group to ask about
InitPrompt ==
  InitWith(Trees(2), [Inos -> {"x", "y"}], SameMtime, {<<"r">>, <<"r", "r/s">>},
           {<<FALSE, TRUE, FALSE>>, <<TRUE, TRUE, FALSE>>}, NoProfiles)
SpecPrompt == InitPrompt /\ [][Next]_vars


(***************************************************************************)
(* Properties.                                                             *)
(***************************************************************************)
InRelink == pc \in {"prompt", "retry", "link", "rename", "unlink", "return"}
InPathLoop == pc \in {"retry", "link", "rename", "unlink"}
PathsOf(i) == Range(inode_lookup[i].paths)
RecordedPaths == UNION {PathsOf(i) : i \in Inos}
\* the inodes of the bucket relink was called with
BucketInodes == Range(hash_lookup[tolink_list[idx]])
\* the destination inodes of that bucket, as relink sorted them
Destinations == {ordered[k] : k \in 2 .. Len(ordered)}
\* the path records of the destination inodes of the bucket
DestinationRecords == SumSeq([k \in 1 .. Len(ordered) - 1 |->
                                Len(inode_lookup[ordered[k + 1]].paths)])
SuccessfulRenames == SelectSeq(trace, LAMBDA e : e.ok)

\* C1: while relink replaces the paths of a bucket's destination inodes, in
\* every state between its system calls every such path is present in its
\* directory and names either the inode it named when the program started or
\* the source inode; no destination path is ever absent.
C1_DestinationNeverAbsent ==
  InRelink =>
    \A i \in Destinations : \A p \in PathsOf(i) :
      /\ dir[p] # NoIno
      /\ dir[p] = dir0[p] \/ dir[p] = ordered[1]

\* C1 witness: the temporary link exists and the rename has not happened yet
C1_Witness ==
  /\ pc = "rename"
  /\ dir[tmp] = ordered[1]
  /\ dir[DestPath] = dir0[DestPath]
  /\ dir[DestPath] # ordered[1]

\* C2: without --use-xattrs, every path the scanner recorded exists and
\* yields the bytes it yielded when the program started, in every state of
\* the run and so when it is done.
C2_PathsAndBytesPreserved ==
  ~xattrs =>
    \A p \in RecordedPaths :
      /\ dir[p] # NoIno
      /\ content[dir[p]] = content[dir0[p]]

\* C2 witness: a run is done that replaced a path by a link to another inode
C2_Witness ==
  /\ pc = "done"
  /\ ~xattrs
  /\ \E p \in RecordedPaths : dir[p] # dir0[p]

\* the files of every bucket handed to the relinker have the same bytes
BucketsAlike ==
  \A k \in 1 .. Len(tolink_list) :
    \A i, j \in Range(hash_lookup[tolink_list[k]]) : content[i] = content[j]

\* every stored 32-byte digest attribute is the digest of its file
StoredDigestsTrue ==
  \A i \in Inos :
    xhash[i].len = SHA256_DIGEST_LENGTH => xhash[i].val = SHA256(content[i])

\* C3 as claimed: the inodes of every bucket that enters the relinker have
\* pairwise identical contents, for every combination of options.
C3_AsClaimed == BucketsAlike

\* C3 amended: the inodes of every bucket that enters the relinker have
\* pairwise identical contents when --use-xattrs is off, or when every stored
\* digest attribute is the digest of its file's content.
C3_BucketsAlike == (~xattrs \/ StoredDigestsTrue) => BucketsAlike

\* C3 witness: with --use-xattrs a bucket of two inodes one of which had its
\* digest adopted from the attribute
C3_Witness ==
  /\ xattrs
  /\ StoredDigestsTrue
  /\ pc = "relink"
  /\ tolink_list # <<>>
  /\ faults = 0
  /\ \E i \in Range(hash_lookup[tolink_list[1]]) : xmtime[i].len = -1

\* C4: when rename reports success, in the state right after it the
\* destination path names the source inode of the bucket: the inode number
\* and the size are those of the source's stat buffer.
C4_RenamedPathIsSource ==
  [][(pc = "rename" /\ pc' # "unlink") =>
       /\ dir'[DestPath] = inode_lookup[ordered[1]].buffer.st_ino
       /\ Size(content[dir'[DestPath]]) = inode_lookup[ordered[1]].buffer.st_size]_vars

\* C4 witness: a rename succeeded
C4_Witness == SuccessfulRenames # <<>> /\ pc = "retry"

\* C5 as claimed: a second run with the same options performs no relink.
C5_AsClaimed ==
  (run > 1 /\ prev.dryrun = dryrun) => relinked_count = 0 /\ relinked_size = 0

\* C5 amended: after a run in which no system call failed and no group was
\* refused at the prompt, a second run on the same roots with the same options
\* performs no relink and leaves the reclaimed-bytes counter at zero.
C5_Idempotent ==
  (run > 1 /\ prev.dryrun = dryrun /\ prev.faults = 0 /\ ~prev.refused) =>
    relinked_count = 0 /\ relinked_size = 0

\* C5 witness: the second run is done, after a first run that relinked
C5_Witness ==
  /\ run > 1 /\ pc = "done"
  /\ ~prev.dryrun /\ ~dryrun /\ prev.faults = 0 /\ ~prev.refused
  /\ prev.count > 0

\* C6: with --dry-run no directory entry, link count or directory mtime
\* changes; the groups a dry run reports are the groups the real run that
\* follows it on the same tree reports, when no system call fails.
C6_DryRun ==
  /\ dryrun =>
       /\ dir = dir0
       /\ \A i \in Inos : LinkCount(dir, i) = LinkCount(dir0, i)
       /\ dmtime = dmtime0
  /\ (run > 1 /\ prev.dryrun /\ ~dryrun /\ faults = 0 /\ InRelink) =>
       DuplicateGroups = prev.groups

\* C6 witness: a real run after a dry run, both reporting a group
C6_Witness ==
  /\ run > 1 /\ prev.dryrun /\ ~dryrun /\ faults = 0
  /\ pc = "return" /\ prev.groups # {}
  /\ relinked_count > 0

\* the order (mtime seconds, mtime nanoseconds, inode number) on the files
Older(i, j) ==
  \/ mtime[i][1] < mtime[j][1]
  \/ mtime[i][1] = mtime[j][1] /\ mtime[i][2] < mtime[j][2]
  \/ mtime[i] = mtime[j] /\ i < j

\* C7: in relink the source is the least inode of the bucket under (mtime
\* seconds, mtime nanoseconds, inode number); every other inode of the bucket
\* is a destination; no path of the source is a destination path.
C7_SourceIsOldest ==
  InRelink =>
    /\ ordered[1] \in BucketInodes
    /\ \A j \in BucketInodes \ {ordered[1]} : Older(ordered[1], j)
    /\ Destinations = BucketInodes \ {ordered[1]}
    /\ \A j \in Destinations : PathsOf(j) \cap PathsOf(ordered[1]) = {}
    /\ InPathLoop => ordered[di] # ordered[1] /\ DestPath \notin PathsOf(ordered[1])

\* C7 witness: a path is being replaced and the source is not the inode
\* with the least number
C7_Witness ==
  /\ pc = "rename"
  /\ Len(ordered) = 3
  /\ ordered[1] > ordered[2]
  /\ mtime[ordered[1]][1] = mtime[ordered[2]][1]

\* a call of relink that was not skipped and in which no system call failed
CleanBucket == pc = "return" /\ ~mark.skipped /\ faults = mark.faults

\* C8 as claimed: after such a call the source's link count is the number
\* of all paths of the bucket.
C8_AsClaimed ==
  CleanBucket =>
    /\ relinked_count - mark.count = DestinationRecords
    /\ \A i \in BucketInodes : \A p \in PathsOf(i) : dir[p] = ordered[1]
    /\ LinkCount(dir, ordered[1]) =
         DestinationRecords + Len(inode_lookup[ordered[1]].paths)

\* C8 amended: after a call of relink with no refusal, no dry-run and no
\* failing link or rename, the relink counter has grown by the number of path
\* records of the non-source inodes, every path of every inode of the bucket
\* names the source inode, and the source's link count has grown by that same
\* number.
C8_BucketRelinked ==
  CleanBucket =>
    /\ relinked_count - mark.count = DestinationRecords
    /\ \A i \in BucketInodes : \A p \in PathsOf(i) : dir[p] = ordered[1]
    /\ LinkCount(dir, ordered[1]) = mark.nlink + DestinationRecords

\* C8 witness: a bucket of two inodes whose loser had two paths
C8_Witness ==
  /\ CleanBucket
  /\ Len(ordered) = 2
  /\ Cardinality(PathsOf(ordered[2])) = 2
  /\ relinked_count - mark.count = 2

\* C9: the reclaimed-bytes counter is the sum of the sizes of the inodes
\* the successful renames put in place, the relink counter is the number of
\* those renames; a failed link or rename changes neither.
C9_Counters ==
  /\ relinked_count = Len(SuccessfulRenames)
  /\ relinked_size = SumSeq([k \in 1 .. Len(SuccessfulRenames) |->
                               SuccessfulRenames[k].size])

\* C9 witness: one rename failed, another succeeded
C9_Witness ==
  /\ relinked_count > 0
  /\ \E k \in 1 .. Len(trace) : ~trace[k].ok
  /\ relinked_size > 0

\* C10 as claimed: a failure while scanning is never fatal: no bucket of
\* inode_lookup is left without an inode record for the later stages, and
\* the process is not killed.
C10_ScanFailureNotFatal ==
  /\ pc # "crashed"
  /\ pc # "scan" => \A i \in Inos : inode_lookup[i].st # "null"


\* the inodes that have an inode record
Records == {i \in Inos : inode_lookup[i].st = "entry"}

\* no directory on another device is entered: every recorded path lies in a
\* directory on the device of the first root, and no path in a directory on
\* another device is changed
DirectoriesConfined ==
  /\ \A i \in Records : \A p \in PathsOf(i) : ddev[DirName(p)] = device
  /\ \A p \in AllPaths : ddev[DirName(p)] # device => dir[p] = dir0[p]

\* every recorded path names a file on the device of the first root, the
\* file whose number the record holds
FilesConfined ==
  \A i \in Records : \A p \in PathsOf(i) :
    /\ fdev[p] = device
    /\ pc \in {"scan", "hash"} => dir[p] = inode_lookup[i].buffer.st_ino

\* C11 as claimed: after scanning any list of roots, every path of every
\* inode record resolves to an inode with the record's number on the device of
\* the first root; a directory on another device is not entered and no file
\* in it is recorded or relinked.
C11_DeviceConfinement == DirectoriesConfined /\ FilesConfined

\* the last component of a path, and the directory entries that lead from "r"
\* to its directory
Basename(path) == CHOOSE n \in Names : \E d \in Dirs : path = JoinPath(d, n)
Crossed(path) == IF DirName(path) = "r/s" THEN {"s"} ELSE {}
\* the name matches one of the --exclude patterns
Matches(name) == \E pattern \in exclude : fnmatch(pattern, name)

\* the directories a scan of d enters when no call is refused
RECURSIVE Visited(_)
Visited(d) ==
  IF ddev[d] # device THEN {}
  ELSE {d} \cup UNION {Visited(JoinPath(d, n)) :
                         n \in {x \in Range(SubdirNames(d)) : ~Matches(x)}}
\* the directories the scan of root k enters, and those any root enters
VisitedFrom(k) == Visited(dirs[k])
EnteredDirs == UNION {VisitedFrom(k) : k \in 1 .. Len(dirs)}
\* the names the scan discovers when no call is refused
Discovered ==
  {q \in AllPaths : /\ dir0[q] # NoIno
                    /\ DirName(q) \in EnteredDirs
                    /\ ~Matches(Basename(q))}

\* C12 as claimed: no recorded path has a basename that matches a pattern
\* and none is reached through a directory entry that matches a pattern.
C12_AsClaimed ==
  \A q \in RecordedPaths :
    /\ ~Matches(Basename(q))
    /\ \A B \in Crossed(q) : ~Matches(B)

\* C12 amended: no recorded path has a basename that matches a pattern, and
\* the directory of every recorded path is a root or is reached from a root
\* through entries that match no pattern (a root is scanned whatever its
\* name); when no call of the scan was refused, every name in such a
\* directory that matches no pattern is recorded, so an inode with excluded
\* and non-excluded names has a record with its non-excluded names only.
C12_Exclusion ==
  /\ \A q \in RecordedPaths :
       ~Matches(Basename(q)) /\ DirName(q) \in EnteredDirs
  /\ (pc # "scan" /\ faults = 0) => RecordedPaths = Discovered

\* C12 witness: after the scan an inode with an excluded and a non-excluded
\* name has a record
C12_Witness ==
  /\ pc = "hash"
  /\ exclude # {}
  /\ \E i \in Records : \E q \in AllPaths :
       /\ dir0[q] = i
       /\ Matches(Basename(q))
       /\ DirName(q) \in EnteredDirs

\* the path records of inode i that hold path q, and the roots whose scan
\* discovers q
PathRecords(i, q) ==
  Cardinality({k \in 1 .. Len(inode_lookup[i].paths) : inode_lookup[i].paths[k] = q})
Discoveries(q) ==
  IF dir0[q] # NoIno /\ ~Matches(Basename(q))
  THEN Cardinality({k \in 1 .. Len(dirs) : DirName(q) \in VisitedFrom(k)})
  ELSE 0
\* the scan is going on, or has just ended
Scanning == pc = "scan" \/ (pc = "hash" /\ idx = 1)
ScanEnded == pc = "hash" /\ idx = 1

\* C13 as claimed: after scanning, for any list of roots, every file the
\* scanner reached has one inode record, which holds exactly one path record
\* for each discovered name of the file.
C13_AsClaimed ==
  (ScanEnded /\ faults = 0) =>
    /\ Records = {dir0[q] : q \in Discovered}
    /\ \A i \in Records : \A q \in AllPaths :
         PathRecords(i, q) = (IF Discoveries(q) > 0 /\ dir0[q] = i THEN 1 ELSE 0)

\* C13 amended: every path record of an inode record names that inode;
\* after a scan in which no call was refused every file the scanner reached
\* has one inode record, which holds one path record for each discovery of a
\* name of the file: one per name and per root whose scan reaches the name.
C13_Coalescing ==
  /\ Scanning =>
       /\ \A i \in Records : \A q \in PathsOf(i) : dir0[q] = i
       /\ \A i \in Records : \A q \in PathsOf(i) : PathRecords(i, q) <= Discoveries(q)
  /\ (ScanEnded /\ faults = 0) =>
       /\ Records = {dir0[q] : q \in Discovered}
       /\ \A i \in Records : \A q \in AllPaths :
            PathRecords(i, q) = (IF dir0[q] = i THEN Discoveries(q) ELSE 0)

\* C13 witness: a file with two names has one record with two path records
C13_Witness ==
  /\ ScanEnded
  /\ Len(dirs) = 1
  /\ \E i \in Records :
       /\ Len(inode_lookup[i].paths) = 2
       /\ Cardinality(PathsOf(i)) = 2

C15_DryRunWritesNothing ==
  dryrun =>
    /\ dir = dir0
    /\ dmtime = dmtime0
    /\ xhash = xhash0
    /\ xmtime = xmtime0

\* the inode records whose size another inode record has too
SharedSize ==
  {i \in Records : \E j \in Records \ {i} :
     inode_lookup[j].buffer.st_size = inode_lookup[i].buffer.st_size}
\* the inodes hash_inode was called for, and those it opened a path of
HashedInodes == {hashlog[k].ino : k \in 1 .. Len(hashlog)}
OpenedInodes == {hashlog[k].ino : k \in {j \in 1 .. Len(hashlog) : hashlog[j].opened}}
\* the inodes in the chains of the digest map
DigestMapInodes == UNION {Range(hash_lookup[h]) : h \in DOMAIN hash_lookup}

\* C16: once the sizes are grouped, the hash queue holds exactly the inode
\* records whose size is shared by two or more records, each once; an inode
\* whose size is unique is never passed to hash_inode, never enters the digest
\* map or a bucket being relinked, and keeps all its paths.
C16_SizeFiltering ==
  pc \notin {"scan", "crashed"} =>
    /\ Range(tohash_list) = SharedSize
    /\ Len(tohash_list) = Cardinality(SharedSize)
    /\ \A i \in Records \ SharedSize :
         /\ i \notin HashedInodes
         /\ i \notin DigestMapInodes
         /\ i \notin Range(ordered)
         /\ \A q \in PathsOf(i) : dir[q] = dir0[q]

\* C16 witness: two empty files were queued and relinked, a third file of
\* another size was left alone
C16_Witness ==
  /\ pc = "done"
  /\ relinked_count > 0
  /\ \E i \in Range(tohash_list) : inode_lookup[i].buffer.st_size = 0
  /\ Records \ SharedSize # {}

\* the attributes the opened file carried when the run started make a cache
\* hit for inode record i: a 32-byte digest, and no mtime attribute or one
\* equal to the scanned mtime
HitAtStart(i, fd) ==
  /\ xhash0[fd].len = 32
  /\ \/ xmtime0[fd].len = -1
     \/ /\ xmtime0[fd].len = 16
        /\ xmtime0[fd].val = inode_lookup[i].buffer.st_mtim

\* C17: with --use-xattrs, a call of hash_inode that opened a path adopts
\* the stored digest, and feeds nothing to SHA-256, exactly when the file
\* carries a 32-byte digest attribute and no mtime attribute or an mtime
\* attribute equal to the scanned mtime; otherwise, when no call is refused,
\* the digest is that of the content and both attributes are written.
C17_CacheHit ==
  xattrs =>
    \A k \in 1 .. Len(hashlog) :
      LET h == hashlog[k]
      IN h.opened =>
           /\ h.cached <=> HitAtStart(h.ino, h.fd)
           /\ h.cached => /\ ~h.computed
                          /\ inode_lookup[h.ino].hash = xhash0[h.fd].val
                          /\ xhash[h.fd] = xhash0[h.fd]
                          /\ xmtime[h.fd] = xmtime0[h.fd]
           /\ (~h.cached /\ faults = 0) =>
                /\ h.computed
                /\ inode_lookup[h.ino].hash = SHA256(content[h.fd])
                /\ xhash[h.fd] = [len |-> 32, val |-> SHA256(content[h.fd])]
                /\ xmtime[h.fd] = [len |-> 16,
                                   val |-> inode_lookup[h.ino].buffer.st_mtim]

\* C17 witness: in one run a digest was adopted that is not the digest of the
\* content, and a digest was computed for a file whose 32-byte digest
\* attribute came with another mtime
C17_Witness ==
  /\ xattrs /\ pc = "done" /\ faults = 0
  /\ \E k \in 1 .. Len(hashlog) :
       /\ hashlog[k].cached
       /\ inode_lookup[hashlog[k].ino].hash # SHA256(content[hashlog[k].fd])
  /\ \E k \in 1 .. Len(hashlog) :
       /\ hashlog[k].computed
       /\ xhash0[hashlog[k].fd].len = 32
       /\ xmtime0[hashlog[k].fd].len = 16

\* the digests that two or more hashed inodes share
SharedDigests == {h \in DOMAIN hash_lookup : Len(hash_lookup[h]) >= 2}

\* C18: relink is called for digests in strictly ascending order, so at most
\* once for each, and only for digests that two or more hashed inodes share;
\* when main is done it has been called for every such digest; an inode that
\* is alone in its digest keeps all its paths.
C18_RelinkCalls ==
  /\ \A j, k \in 1 .. Len(calls) : j < k => calls[j] < calls[k]
  /\ \A k \in 1 .. Len(calls) : calls[k] \in SharedDigests
  /\ pc = "done" => Range(calls) = SharedDigests
  /\ \A h \in DOMAIN hash_lookup :
       Len(hash_lookup[h]) = 1 =>
         \A q \in PathsOf(hash_lookup[h][1]) : dir[q] = dir0[q]

\* C18 witness: main is done after two calls of relink, each of which
\* replaced a path
C18_Witness ==
  /\ pc = "done"
  /\ Len(calls) = 2
  /\ relinked_count = 2
  /\ Cardinality(SharedDigests) = 2

\* the step is a link that failed against the last source path, after it
\* failed against those before
LinkGaveUp ==
  /\ pc = "link" /\ pc' \notin {"link", "rename"}
  /\ <<di', dpath'>> # <<di, dpath>>
\* the step is a rename that failed
RenameFailed == pc = "rename" /\ pc' = "unlink"
\* the step goes on with the path after DestPath, in this bucket or by
\* returning to main's loop over the buckets
GoesOn ==
  IF dpath < Len(DestPaths) THEN pc' = "retry" /\ di' = di /\ dpath' = dpath + 1
  ELSE IF di < Len(ordered) THEN pc' = "retry" /\ di' = di + 1 /\ dpath' = 1
  ELSE pc' = "return"
\* no rename of this run has replaced path q
NotReplaced(q) == \A k \in 1 .. Len(trace) : trace[k].ok => trace[k].path # q

\* C19: a step in which link has failed against every source path, or in
\* which rename fails, leaves every directory entry and both counters as they
\* were, the destination path on the inode it named before the attempt (the
\* inode it named at the start unless an earlier rename replaced it); after a
\* failed link, and after the unlink that follows a failed rename, relink
\* goes on with the next destination path, or returns to main, which goes on
\* with the next bucket.
C19_RelinkErrors ==
  [][
      /\ (LinkGaveUp \/ RenameFailed) =>
          /\ dir' = dir
          /\ dir'[DestPath] # NoIno
          /\ (NotReplaced(DestPath) => dir'[DestPath] = dir0[DestPath])
          /\ relinked_count' = relinked_count
          /\ relinked_size' = relinked_size
      /\ (LinkGaveUp => GoesOn)
      /\ pc = "unlink" =>
          /\ dir'[DestPath] = dir[DestPath]
          /\ relinked_count' = relinked_count
          /\ relinked_size' = relinked_size
          /\ GoesOn
      /\ pc = "return" => (pc' = "relink" /\ idx' = idx + 1)
    ]_vars

\* C19 witness: a rename failed and a later rename of the same run succeeded
C19_Witness ==
  \E j, k \in 1 .. Len(trace) : j < k /\ ~trace[j].ok /\ trace[k].ok

\* the inodes for which every open was refused, or mmap was
FailedHashes ==
  {hashlog[k].ino : k \in {j \in 1 .. Len(hashlog) :
     \/ hashlog[j].refused = Len(inode_lookup[hashlog[j].ino].paths)
     \/ hashlog[j].mmap}}
\* the paths the renames of this run were aimed at
RenamedPaths == {trace[k].path : k \in 1 .. Len(trace)}

\* C20: an inode of the hash queue for which every open was refused, or whose
\* mmap was refused, is in no chain of the digest map, so the chains hold
\* exactly the other inodes passed to hash_inode; it is not in a bucket being
\* relinked, as source or as destination, no rename is aimed at one of its
\* paths and all its paths keep naming it; hash_inode is called for every
\* inode of the queue, in queue order, whatever failed before.
C20_HashErrors ==
  /\ \A i \in FailedHashes :
       /\ i \notin DigestMapInodes
       /\ i \notin Range(ordered)
       /\ \A q \in PathsOf(i) : q \notin RenamedPaths /\ dir[q] = dir0[q] /\ dir[q] = i
  /\ DigestMapInodes = HashedInodes \ FailedHashes
  /\ Len(hashlog) = (IF pc = "hash" THEN idx - 1
                      ELSE IF pc = "scan" THEN 0 ELSE Len(tohash_list))
  /\ \A k \in 1 .. Len(hashlog) : hashlog[k].ino = tohash_list[k]

\* C20 witness: hash_inode failed for one inode of the queue, the inodes
\* after it were hashed and relink replaced a path of another inode
C20_Witness ==
  /\ pc = "done"
  /\ relinked_count > 0
  /\ \E j, k \in 1 .. Len(hashlog) :
       /\ j < k
       /\ hashlog[j].ino \in FailedHashes
       /\ hashlog[k].computed

\* relink is past the prompt, in the loops over the destination paths
Relinking == pc \in {"retry", "link", "rename", "unlink"}

\* C21: in interactive mode, once standard input is at end of input, the
\* answer read for a group counts as "no": relink never goes on to the
\* destination paths of the group.
C21_EofMeansNo == (interactive /\ eof) => ~Relinking

\* the temporary names, and those that name a link the run created and
\* has not removed
TmpPaths == {p \in AllPaths : Basename(p) \in TmpNames}
CreatedTmp == {t \in TmpPaths : dir0[t] = NoIno /\ dir[t] # NoIno}
\* relink is between two destination paths, or has returned
PathFinished == pc \in {"retry", "return", "relink", "done"}

\* C22: when no system call was refused, for every list of roots, once
\* relink has finished a destination path no temporary name holds a link the
\* run created, and none does when the run is done.
C22_TempCleanup == (faults = 0 /\ PathFinished) => CreatedTmp = {}

\* the directory entries that differ from the start of the run, but for the
\* temporary names the run made
Changed ==
  {q \in AllPaths : dir[q] # dir0[q] /\ ~(q \in TmpPaths /\ dir0[q] = NoIno)}
\* the inodes of the bucket of digest h, and the one relink takes as source
Chain(h) == Range(hash_lookup[h])
SourceOf(h) == relink_ordered(inode_lookup, hash_lookup[h])[1]
\* the buckets relink was called with that were neither refused at the prompt
\* nor skipped for --dry-run
RelinkedKeys == IF dryrun THEN {} ELSE Range(calls) \ declined
\* the names of inode i at the start of the run
NamesOf(i) == {q \in AllPaths : dir0[q] = i}

\* C23: in every state of a run, a directory entry that differs from the
\* start, other than a temporary name the run made, is a recorded path of a
\* destination inode of a bucket relink went through, and names the source of
\* that bucket; every name of a source inode, every name of an inode outside
\* those buckets and every name of an inode of a bucket refused at the prompt
\* names the inode it named at the start.
C23_RelinkerFrame ==
  /\ \A q \in Changed :
       \E h \in RelinkedKeys :
         /\ dir0[q] \in Chain(h) \ {SourceOf(h)}
         /\ q \in PathsOf(dir0[q])
         /\ dir[q] = SourceOf(h)
  /\ \A h \in Range(calls) : \A q \in NamesOf(SourceOf(h)) : dir[q] = dir0[q]
  /\ \A i \in Inos \ UNION {Chain(h) : h \in RelinkedKeys} :
       \A q \in NamesOf(i) : dir[q] = dir0[q]
  /\ \A h \in declined : \A i \in Chain(h) : \A q \in NamesOf(i) : dir[q] = dir0[q]

\* C23 witness: the run is done, one bucket was refused at the prompt and a
\* path of another bucket was replaced
C23_Witness ==
  /\ pc = "done"
  /\ declined # {}
  /\ Changed # {}

=============================================================================
